---- MODULE Spec2Model ----
(***************************************************************************)
(* The useFetchData custom hook (src/src/hooks/useFetchData.jsx) as a      *)
(* state machine.  The hook owns three pieces of React state (data,        *)
(* loading, error); every render closes over the url and options it was    *)
(* called with and returns fetchData as the refetch callback; an effect    *)
(* with dependency list [url] calls fetchData after mount and after every  *)
(* render whose url differs from the previous one.  An invocation of       *)
(* fetchData suspends twice: on fetch(url, options) and on                 *)
(* response.json().  The network is the environment: it decides when each  *)
(* outstanding request is answered and how.                                *)
(***************************************************************************)
EXTENDS Integers, FiniteSets, Sequences, TLC

\* JavaScript null
Null == "null"

\* ---- bounds of the model ----
\* number of fetchData invocations in one behaviour
MaxTriggers == 3

\* ---- the environment's value sets ----
Endpoints == {"E1", "E2"}
\* the url of the first render
FirstEndpoint == "E1"
\* the options argument; "{}" is the default of line 10
DefaultOptions == "{}"
OptionValues == {DefaultOptions, "POST"}
\* values response.json() can resolve with (JSON null parses to null)
Bodies == {Null, "B1", "B2"}
\* the message of the Error thrown on a non-success status
NotOkMessage == "Failed to fetch data"
\* messages of the TypeError fetch() rejects with
NetworkMessages == {"Failed to fetch"}
\* messages of the SyntaxError response.json() rejects with
ParseMessages == {"Unexpected end of JSON input"}

VARIABLES
  data,          \* useState(null)
  loading,       \* useState(true)
  error,         \* useState(null)
  url,           \* the url argument of the latest render
  options,       \* the options argument of the latest render
  effectPending, \* the [url] effect of the latest render has not run yet
  requests,      \* the invocations of fetchData that have not settled
  settled,       \* number of invocations that have settled
  triggers,      \* number of times the effect or a refetch callback called fetchData
  callbacks,     \* the refetch callbacks returned by the renders so far
  nullBody,      \* some response.json() has resolved with null
  lastSuccess    \* id and payload of the invocation that succeeded most recently

vars == <<data, loading, error, url, options, effectPending, requests,
          settled, triggers, callbacks, nullBody, lastSuccess>>

\* the hook's state bundle { data, loading, error }
Hook == [data |-> data, loading |-> loading, error |-> error]

\* number of fetch() calls made so far
Issued == Cardinality(requests) + settled

\* a settled hook: something has settled and nothing is outstanding
Quiet == requests = {} /\ settled > 0 /\ ~effectPending

\* ---- the body of fetchData, statement by statement ----

\* fetchData without setLoading(true), as in the hook without refetch
TriggerWritesNothing(h) == h

\* line 17: setLoading(true) is the only state write before the request
TriggerWrites(h) == [h EXCEPT !.loading = TRUE]

\* a hook that forgets that fetch resolves on HTTP errors too
StatusNeverFails(ok) == FALSE

\* line 22: if (!response.ok) throw new Error("Failed to fetch data")
StatusFails(ok) == ~ok

\* fetch(url) without the options, as the hook without refetch calls it
FetchArgsNoOptions(cb) == [url |-> cb.url, options |-> DefaultOptions]

\* line 21: fetch(url, options) with the values the closure captured
FetchArgs(cb) == [url |-> cb.url, options |-> cb.options]

\* a request-generation guard: only the latest invocation may write
AcceptsOnlyLatest(r) == r.id = Issued

\* lines 24-26: the result is written whichever invocation it belongs to;
\* no generation counter or cancellation signal is consulted
Accepts(r) == TRUE

\* a try block that forgets to store the result
TryWritesDropsResult(h, result) == h

\* line 26: setData(result)
TryWrites(h, result) == [h EXCEPT !.data = result]

\* a catch block that only logs
CatchWritesNothing(h, msg) == h

\* a catch block that calls setData instead of setError
CatchWritesIntoData(h, msg) == [h EXCEPT !.data = msg]

\* a catch block that also resets data
CatchWritesClearsData(h, msg) == [h EXCEPT !.error = msg, !.data = Null]

\* a catch block that reports one fixed message for every failure
CatchWritesFixedMessage(h, msg) == [h EXCEPT !.error = NotOkMessage]

\* lines 27-29: setError(err.message)
CatchWrites(h, msg) == [h EXCEPT !.error = msg]

\* no finally block
FinallyWritesNothing(h) == h

\* setLoading(!loading) in the finally block
FinallyWritesToggles(h) == [h EXCEPT !.loading = ~h.loading]

\* setLoading(false) at the end of the try block instead of a finally block
FinallyWritesOnlyOnSuccess(h) ==
  IF h.error # Null THEN h ELSE [h EXCEPT !.loading = FALSE]

\* lines 30-32: setLoading(false)
FinallyWrites(h) == [h EXCEPT !.loading = FALSE]

\* an invocation that calls fetch again when it ends
AfterSettleRetries(r) ==
  (requests \ {r}) \cup {[r EXCEPT !.id = Issued + 1, !.pc = "fetching"]}

\* what is left outstanding when invocation r ends: nothing is re-issued
AfterSettle(r) == requests \ {r}

\* an effect without a dependency list runs after every render
DepsAlwaysChanged(prevUrl, nextUrl) == TRUE

\* line 38: the effect re-runs when its dependency [url] changed
DepsChanged(prevUrl, nextUrl) == prevUrl # nextUrl

\* line 40: the callback returned by a render closes over its url and options
RefetchOf(u, o) == [url |-> u, options |-> o]

SetHook(h) ==
  /\ data' = h.data
  /\ loading' = h.loading
  /\ error' = h.error

\* lines 16-21: one call of fetchData through the closure cb
fetchData(cb, kind) ==
  /\ triggers < MaxTriggers
  /\ triggers' = triggers + 1
  /\ SetHook(TriggerWrites(Hook))
  /\ requests' = requests \cup
       {[id |-> Issued + 1, url |-> FetchArgs(cb).url,
         options |-> FetchArgs(cb).options, kind |-> kind, pc |-> "fetching",
         atIssue |-> [data |-> data, failed |-> error # Null, quiet |-> Quiet]]}
  /\ UNCHANGED <<settled, nullBody, lastSuccess>>

\* ---- actions ----

Init ==
  /\ data = Null
  /\ loading = TRUE
  /\ error = Null
  /\ url = FirstEndpoint
  /\ options \in OptionValues
  /\ effectPending = TRUE
  /\ requests = {}
  /\ settled = 0
  /\ triggers = 0
  /\ nullBody = FALSE
  /\ lastSuccess = [id |-> 0, body |-> Null]
  /\ callbacks = {RefetchOf(url, options)}

\* a render whose effect cleanup aborts the requests of the previous endpoint
RenderAborts(u, o) ==
  /\ ~effectPending
  /\ DepsChanged(url, u) => triggers < MaxTriggers
  /\ url' = u
  /\ options' = o
  /\ effectPending' = DepsChanged(url, u)
  /\ callbacks' = callbacks \cup {RefetchOf(u, o)}
  /\ requests' = IF DepsChanged(url, u) THEN {} ELSE requests
  /\ UNCHANGED <<data, loading, error, settled, triggers, nullBody, lastSuccess>>

\* the parent renders the hook again with arguments u, o (lines 10, 36-40)
Render(u, o) ==
  /\ ~effectPending
  /\ DepsChanged(url, u) => triggers < MaxTriggers
  /\ url' = u
  /\ options' = o
  /\ effectPending' = DepsChanged(url, u)
  /\ callbacks' = callbacks \cup {RefetchOf(u, o)}
  /\ UNCHANGED <<data, loading, error, requests, settled, triggers, nullBody,
                 lastSuccess>>

\* lines 36-38: the effect of the latest render calls its fetchData
RunEffect ==
  /\ effectPending
  /\ effectPending' = FALSE
  /\ fetchData(RefetchOf(url, options), IF triggers = 0 THEN "mount" ELSE "endpoint")
  /\ UNCHANGED <<url, options, callbacks>>

\* the consumer calls a refetch callback it was handed (line 40)
Refetch(cb) ==
  /\ ~effectPending
  /\ cb \in callbacks
  /\ fetchData(cb, "refetch")
  /\ UNCHANGED <<url, options, effectPending, callbacks>>

Settle(r, h) ==
  /\ SetHook(FinallyWrites(h))
  /\ requests' = AfterSettle(r)
  /\ settled' = settled + 1
  /\ UNCHANGED <<url, options, effectPending, triggers, callbacks>>

\* lines 21-24: fetch resolves with a response whose ok flag is ok; line 22
\* throws into the catch block, otherwise the invocation goes on to line 24
FetchResolves(r, ok) ==
  /\ r \in requests
  /\ r.pc = "fetching"
  /\ IF StatusFails(ok)
     THEN /\ Settle(r, CatchWrites(Hook, NotOkMessage))
          /\ UNCHANGED <<nullBody, lastSuccess>>
     ELSE /\ requests' = (requests \ {r}) \cup {[r EXCEPT !.pc = "parsing"]}
          /\ UNCHANGED <<data, loading, error, url, options, effectPending,
                         settled, triggers, callbacks, nullBody, lastSuccess>>

\* line 21 resolves with response.ok true
FetchResolvesOk(r) == FetchResolves(r, TRUE)

\* line 21 resolves with response.ok false
FetchResolvesNotOk(r) == FetchResolves(r, FALSE)

\* line 21 rejects (the transport failed)
FetchRejects(r, msg) ==
  /\ r \in requests
  /\ r.pc = "fetching"
  /\ Settle(r, CatchWrites(Hook, msg))
  /\ UNCHANGED <<nullBody, lastSuccess>>

\* line 24 resolves with the parsed body
JsonResolves(r, body) ==
  /\ r \in requests
  /\ r.pc = "parsing"
  /\ Settle(r, IF Accepts(r) THEN TryWrites(Hook, body) ELSE Hook)
  /\ nullBody' = (nullBody \/ body = Null)
  /\ lastSuccess' = [id |-> r.id, body |-> body]

\* line 24 rejects: the body is not valid JSON
JsonRejects(r, msg) ==
  /\ r \in requests
  /\ r.pc = "parsing"
  /\ Settle(r, CatchWrites(Hook, msg))
  /\ UNCHANGED <<nullBody, lastSuccess>>

\* ---- the Posts view (src/src/App.jsx) ----

\* if (error): a string is truthy unless it is empty
Truthy(x) == x # Null /\ x # ""

\* lines 39-52 of App.jsx: what Posts renders for the hook state h
View(h) ==
  IF h.loading THEN "loading"
  ELSE IF Truthy(h.error) THEN "error"
  ELSE "list"

Next ==
  \/ \E u \in Endpoints, o \in OptionValues : Render(u, o)
  \/ RunEffect
  \/ \E cb \in callbacks : Refetch(cb)
  \/ \E r \in requests : FetchResolvesOk(r)
  \/ \E r \in requests : FetchResolvesNotOk(r)
  \/ \E r \in requests, msg \in NetworkMessages : FetchRejects(r, msg)
  \/ \E r \in requests, body \in Bodies : JsonResolves(r, body)
  \/ \E r \in requests, msg \in ParseMessages : JsonRejects(r, msg)

Spec == Init /\ [][Next]_vars

\* the network answers request r, in any of the ways it can
Respond(r) ==
  \/ FetchResolvesOk(r)
  \/ FetchResolvesNotOk(r)
  \/ \E msg \in NetworkMessages : FetchRejects(r, msg)
  \/ \E body \in Bodies : JsonResolves(r, body)
  \/ \E msg \in ParseMessages : JsonRejects(r, msg)

\* the hook as Posts uses it: the options argument is always the default
LiveInit == Init /\ options = DefaultOptions

LiveNext ==
  \/ \E u \in Endpoints : Render(u, options)
  \/ RunEffect
  \/ \E cb \in callbacks : Refetch(cb)
  \/ \E r \in requests : Respond(r)

\* React runs a scheduled effect, and every request is answered in the end
LiveSpec ==
  /\ LiveInit
  /\ [][LiveNext]_vars
  /\ WF_vars(RunEffect)
  /\ WF_vars(\E r \in requests : Respond(r))

\* ---- the hook without refetch (src/unnamed/part_000, lines 7-35) ----
\* useFetchData(url): the same three pieces of state, fetchData defined and
\* called inside the [url] effect, nothing returned to trigger it by hand

\* line 18: the message of the Error thrown on a non-success status
SimpleNotOkMessage == "Network response was not ok"

\* a fetchData that calls setLoading(true) first, as the hook with refetch does
SimpleTriggerWritesLoading(h) == [h EXCEPT !.loading = TRUE]

\* lines 13-15: fetchData writes no state before the request
SimpleTriggerWrites(h) == h

\* lines 12-16, 31: the effect calls fetchData, which calls fetch(url)
SimpleRunEffect ==
  /\ effectPending
  /\ triggers < MaxTriggers
  /\ effectPending' = FALSE
  /\ triggers' = triggers + 1
  /\ SetHook(SimpleTriggerWrites(Hook))
  /\ requests' = requests \cup
       {[id |-> Issued + 1, url |-> url, options |-> DefaultOptions,
         kind |-> IF triggers = 0 THEN "mount" ELSE "endpoint",
         pc |-> "fetching",
         atIssue |-> [data |-> data, failed |-> error # Null, quiet |-> Quiet]]}
  /\ UNCHANGED <<url, options, callbacks, settled, nullBody, lastSuccess>>

\* the parent renders the hook again with argument u (lines 7, 32-34)
SimpleRender(u) ==
  /\ ~effectPending
  /\ DepsChanged(url, u) => triggers < MaxTriggers
  /\ url' = u
  /\ effectPending' = DepsChanged(url, u)
  /\ UNCHANGED <<data, loading, error, options, requests, settled, triggers,
                 callbacks, nullBody, lastSuccess>>

\* lines 16-20: fetch resolves; line 18 throws on a non-success status
SimpleFetchResolves(r, ok) ==
  /\ r \in requests
  /\ r.pc = "fetching"
  /\ IF StatusFails(ok)
     THEN /\ Settle(r, CatchWrites(Hook, SimpleNotOkMessage))
          /\ UNCHANGED <<nullBody, lastSuccess>>
     ELSE /\ requests' = (requests \ {r}) \cup {[r EXCEPT !.pc = "parsing"]}
          /\ UNCHANGED <<data, loading, error, url, options, effectPending,
                         settled, triggers, callbacks, nullBody, lastSuccess>>

\* the state after the first render: no refetch callback exists
SimpleInit ==
  /\ data = Null
  /\ loading = TRUE
  /\ error = Null
  /\ url = FirstEndpoint
  /\ options = DefaultOptions
  /\ effectPending = TRUE
  /\ requests = {}
  /\ settled = 0
  /\ triggers = 0
  /\ nullBody = FALSE
  /\ lastSuccess = [id |-> 0, body |-> Null]
  /\ callbacks = {}

\* lines 20-28 are the statements of the hook with refetch
SimpleNext ==
  \/ \E u \in Endpoints : SimpleRender(u)
  \/ SimpleRunEffect
  \/ \E r \in requests, ok \in BOOLEAN : SimpleFetchResolves(r, ok)
  \/ \E r \in requests, msg \in NetworkMessages : FetchRejects(r, msg)
  \/ \E r \in requests, body \in Bodies : JsonResolves(r, body)
  \/ \E r \in requests, msg \in ParseMessages : JsonRejects(r, msg)

SimpleSpec == SimpleInit /\ [][SimpleNext]_vars

TypeOK ==
  /\ data \in Bodies
  /\ loading \in BOOLEAN
  /\ error \in {Null, NotOkMessage} \cup NetworkMessages \cup ParseMessages
  /\ url \in Endpoints
  /\ options \in OptionValues
  /\ triggers \in 0..MaxTriggers
  /\ nullBody \in BOOLEAN

\* ---- helpers of the properties ----

\* the state of a freshly mounted hook while its first request is outstanding
FreshLoading == TriggerWrites([data |-> Null, loading |-> TRUE, error |-> Null])

\* the state a freshly mounted hook settles in on a successful response
FreshSuccess(body) == FinallyWrites(TryWrites(FreshLoading, body))

\* the step issues exactly one request, through the closure cb
IssuesOne(cb) ==
  \E r \in requests' :
    /\ r \notin requests
    /\ requests' = requests \cup {r}
    /\ r.pc = "fetching"
    /\ r.url = cb.url
    /\ r.options = cb.options

\* ---- C1 ----
\* C1: whenever an invocation settles on a success status and a valid JSON
\* body B, the hook has data = B, loading = false and error = null, whatever
\* the state was before (the claim as stated).
C1_SuccessSettlesClean ==
  [][\A r \in requests, b \in Bodies :
       JsonResolves(r, b) =>
         (data' = b /\ loading' = FALSE /\ error' = Null)]_vars

\* ---- C2 ----
\* C2 as stated: an invocation answered with a non-success status settles with
\* data equal to its value before the invocation, loading false and error not
\* null; the invocation made at mount ends in exactly
\* {null, false, "Failed to fetch data"}.
C2_DataAsBeforeInvocation ==
  [][\A r \in requests :
       FetchResolvesNotOk(r) =>
         /\ data' = r.atIssue.data
         /\ loading' = FALSE
         /\ error' # Null
         /\ (r.kind = "mount" =>
               Hook' = [data |-> Null, loading |-> FALSE, error |-> NotOkMessage])]_vars

\* C2 amended: a non-success status settles with data equal to its value
\* immediately before the settlement, loading false and error equal to
\* "Failed to fetch data"; when nothing has settled before it the state is
\* exactly {null, false, "Failed to fetch data"}.
C2_NotOkKeepsData ==
  [][\A r \in requests :
       FetchResolvesNotOk(r) =>
         /\ data' = data
         /\ loading' = FALSE
         /\ error' = NotOkMessage
         /\ (settled = 0 =>
               Hook' = [data |-> Null, loading |-> FALSE, error |-> NotOkMessage])]_vars

\* a non-success status has settled while data from an earlier success is held
C2_Witness ==
  /\ settled > 1
  /\ data # Null
  /\ error = NotOkMessage
  /\ ~loading

\* ---- C3 ----
\* C3: a success status with a body that is not valid JSON settles with data
\* unchanged, loading false and an error that is not null and differs from the
\* message of a non-success status.
C3_BadJsonSettles ==
  [][\A r \in requests, msg \in ParseMessages :
       JsonRejects(r, msg) =>
         /\ data' = data
         /\ loading' = FALSE
         /\ error' # Null
         /\ error' # NotOkMessage]_vars

\* a parse failure has settled while data from an earlier success is held
C3_Witness ==
  /\ settled > 1
  /\ error \in ParseMessages
  /\ data # Null
  /\ ~loading

\* ---- C4 ----
\* C4: every trigger of a fetch sets loading to true and clears error to null,
\* so error is null while the triggered request is outstanding (the claim as
\* stated).
C4_TriggerClearsError ==
  [][triggers' = triggers + 1 => (loading' = TRUE /\ error' = Null)]_vars

\* ---- C5 ----
\* C5: a refetch made in a settled state with error not null, answered with a
\* success status and valid JSON body B, settles with data = B and error = null
\* (the claim as stated).
C5_RefetchRecovers ==
  [][\A r \in requests, b \in Bodies :
       (/\ r.kind = "refetch"
        /\ r.atIssue.quiet
        /\ r.atIssue.failed
        /\ requests = {r}
        /\ JsonResolves(r, b)) =>
         (data' = b /\ error' = Null /\ loading' = FALSE)]_vars

\* ---- C6 ----
\* C6: a refetch made in a settled state sets loading to true at once, and,
\* answered with a success status and valid JSON body B, it settles in the
\* state a freshly mounted hook settles in for that response, whatever data
\* and error were before (the claim as stated, for successful responses).
C6_RefetchAsFresh ==
  [][/\ \A cb \in callbacks : (Quiet /\ Refetch(cb)) => loading' = TRUE
     /\ \A r \in requests, b \in Bodies :
          (/\ r.kind = "refetch"
           /\ r.atIssue.quiet
           /\ requests = {r}
           /\ JsonResolves(r, b)) => Hook' = FreshSuccess(b)]_vars

\* ---- C7 ----
\* C7: a render whose url differs from the previous one schedules the effect,
\* a render with an equal url schedules nothing and no render issues a request
\* itself; each run of the effect (mount included) issues exactly one request,
\* to the url of the latest render.
C7_OneRequestPerEndpointChange ==
  [][/\ \A u \in Endpoints, o \in OptionValues :
          Render(u, o) =>
            (effectPending' = (u # url) /\ requests' = requests /\ Issued' = Issued)
     /\ RunEffect =>
          (/\ IssuesOne([url |-> url, options |-> options])
           /\ Issued' = Issued + 1
           /\ ~effectPending')]_vars

\* the effect has run for a changed endpoint and its request is outstanding
C7_Witness ==
  /\ ~effectPending
  /\ url # FirstEndpoint
  /\ \E r \in requests : r.id = Issued /\ r.kind = "endpoint" /\ r.url = url

\* ---- C8 ----
\* C8: the number of requests issued equals the number of triggers in every
\* reachable state, and a settlement issues no request.
C8_NoAutomaticRequest ==
  /\ [](Issued = triggers)
  /\ [][settled' # settled => (Issued' = Issued /\ requests' \subseteq requests)]_vars

\* a failure has settled, nothing is outstanding and nothing was retried
C8_Witness ==
  /\ error # Null
  /\ data = Null
  /\ requests = {}
  /\ settled = 2
  /\ triggers = 2

\* ---- C9 ----
\* C9: each call of a refetch callback issues exactly one request, to the url
\* and with the options of the render that returned the callback, whether or
\* not the endpoint has changed since.
C9_RefetchUsesItsClosure ==
  [][\A cb \in callbacks :
       Refetch(cb) => (IssuesOne(cb) /\ Issued' = Issued + 1)]_vars

\* a callback of an earlier render was called after the endpoint changed
C9_Witness ==
  /\ loading
  /\ \E r \in requests :
       /\ r.id = Issued
       /\ r.kind = "refetch"
       /\ r.url # url
       /\ r.options # DefaultOptions

\* ---- C10 ----
\* C10 as stated, where a failed invocation settles and leaves nothing
\* outstanding: loading is false and exactly one of error # null and
\* data # null holds, that is, error is set and data is not (response bodies
\* that are JSON null set aside).
C10_ExactlyOne ==
  [][\A r \in requests :
       (/\ requests = {r}
        /\ ~effectPending
        /\ ~nullBody
        /\ \/ FetchResolvesNotOk(r)
           \/ \E m \in NetworkMessages : FetchRejects(r, m)
           \/ \E m \in ParseMessages : JsonRejects(r, m)) =>
         (~loading' /\ ((error' # Null) # (data' # Null)))]_vars

\* C10 amended: with nothing outstanding after a settlement, loading is false
\* and at least one of error # null and data # null holds, and in every state
\* at least one of loading, error # null, data # null holds, as long as no
\* response body was JSON null; the three are not exclusive.
C10_AtLeastOne ==
  /\ Quiet => ~loading
  /\ ~nullBody => (loading \/ error # Null \/ data # Null)

\* settled with nothing outstanding, with both data and error set
C10_Witness ==
  /\ Quiet
  /\ ~nullBody
  /\ ~loading
  /\ data # Null
  /\ error # Null

\* ---- C11 ----
\* C11 as stated: in every reachable state loading implies that a request
\* issued by the hook is outstanding.
C11_LoadingHasRequest == loading => requests # {}

\* C11 amended: loading implies that a request is outstanding or that the
\* effect of the first render has not run yet (loading starts as true, before
\* any request is issued).
C11_LoadingHasRequestOnceMounted == loading => (requests # {} \/ triggers = 0)

\* loading again after a settlement, with the new request outstanding
C11_Witness ==
  /\ loading
  /\ settled > 0
  /\ requests # {}

\* ---- C12 ----
\* C12: data is null as long as no invocation has settled successfully, and
\* error is null as long as no invocation has settled with a failure: both
\* start as null, and data leaves null only where response.json() resolves,
\* error only where an invocation fails.
C12_NullUntilFirstOutcome ==
  /\ (data = Null /\ error = Null)
  /\ [][/\ (data = Null /\ data' # Null) =>
            \E r \in requests, b \in Bodies : JsonResolves(r, b)
        /\ (error = Null /\ error' # Null) =>
            \E r \in requests :
              \/ FetchResolvesNotOk(r)
              \/ \E m \in NetworkMessages : FetchRejects(r, m)
              \/ \E m \in ParseMessages : JsonRejects(r, m)]_vars

\* two invocations have failed and none has succeeded: data is still null
C12_Witness ==
  /\ lastSuccess.id = 0
  /\ settled = 2
  /\ data = Null
  /\ error # Null

\* ---- C13 ----
\* C13: a render with a different endpoint leaves a fresh state, data = null,
\* error = null and loading = true (the claim as stated, at the render that
\* changes the endpoint).
C13_FreshOnEndpointChange ==
  [][\A u \in Endpoints, o \in OptionValues :
       (u # url /\ Render(u, o)) =>
         (data' = Null /\ error' = Null /\ loading' = TRUE)]_vars

\* ---- C14 ----
\* C14: a request to an endpoint that is no longer the current one is neither
\* cancelled by the render that changes the endpoint nor ignored when it
\* settles: its payload is written into data while url stays the new endpoint.
C14_StaleResponseWrites ==
  [][/\ \A u \in Endpoints, o \in OptionValues :
          Render(u, o) => requests' = requests
     /\ \A r \in requests, b \in Bodies :
          (r.url # url /\ JsonResolves(r, b)) =>
            (data' = b /\ url' = url /\ requests' = requests \ {r})]_vars

\* the endpoint changed from E1 to E2 while the mount request was outstanding,
\* the E2 request succeeded first and the E1 request succeeded last: nothing
\* is outstanding, the endpoint is E2 and data is E1's payload
C14_Witness ==
  /\ url # FirstEndpoint
  /\ ~effectPending
  /\ requests = {}
  /\ triggers = 2
  /\ settled = 2
  /\ error = Null
  /\ lastSuccess.id = 1
  /\ data # Null
  /\ data = lastSuccess.body

\* ---- C15 ----
\* C15: Posts shows the loading indicator whenever loading is true, otherwise
\* the error whenever error is set, and maps data only otherwise; whenever it
\* maps data, data is not null, as long as no response body was JSON null.
C15_ViewMapsData ==
  /\ loading => View(Hook) = "loading"
  /\ (~loading /\ error # Null) => View(Hook) = "error"
  /\ (~nullBody /\ View(Hook) = "list") => (~loading /\ error = Null /\ data # Null)

\* Posts maps the payload of a settled request
C15_Witness ==
  /\ View(Hook) = "list"
  /\ ~nullBody
  /\ settled > 0
  /\ data # Null

\* ---- C16 ----
\* C16: each way an invocation can fail (fetch rejects, non-success status,
\* JSON parse failure) ends the invocation inside fetchData: the failure's
\* message is stored in error, loading is set to false and the request is
\* settled.
C16_FailuresSettle ==
  [][\A r \in requests :
       /\ FetchResolvesNotOk(r) =>
            (error' = NotOkMessage /\ ~loading' /\ r \notin requests'
             /\ settled' = settled + 1)
       /\ \A m \in NetworkMessages :
            FetchRejects(r, m) =>
              (error' = m /\ ~loading' /\ r \notin requests'
               /\ settled' = settled + 1)
       /\ \A m \in ParseMessages :
            JsonRejects(r, m) =>
              (error' = m /\ ~loading' /\ r \notin requests'
               /\ settled' = settled + 1)]_vars

\* a rejected fetch has settled with its message and nothing is outstanding
C16_Witness ==
  /\ error \in NetworkMessages
  /\ ~loading
  /\ requests = {}
  /\ settled > 0

\* ---- C17 ----
\* C17: a response with a non-success status ends the invocation at once: it
\* never reaches the parse step, data is not written and the error is the
\* status message, not a parse error.
C17_NotOkSkipsParse ==
  [][\A r \in requests :
       FetchResolvesNotOk(r) =>
         /\ \A q \in requests' : q.id # r.id
         /\ data' = data
         /\ lastSuccess' = lastSuccess
         /\ error' = NotOkMessage
         /\ error' \notin ParseMessages]_vars

\* the mount request was answered with a non-success status
C17_Witness ==
  /\ settled = 1
  /\ requests = {}
  /\ error = NotOkMessage
  /\ data = Null
  /\ lastSuccess.id = 0
  /\ ~loading

\* ---- C18 ----
\* C18 as stated: loading is true in every reachable state in which a request
\* is outstanding.
C18_LoadingWhileOutstanding == requests # {} => loading

\* C18 amended: loading is true from a trigger until the next settlement of
\* any request: every trigger sets it to true, every settlement sets it to
\* false whether or not other requests are outstanding, and nothing else
\* changes it.
C18_LoadingUntilNextSettlement ==
  [][/\ triggers' = triggers + 1 => loading'
     /\ settled' = settled + 1 => ~loading'
     /\ (triggers' = triggers /\ settled' = settled) => loading' = loading]_vars

\* two requests overlapped and one has settled: the other is outstanding while
\* loading is false
C18_Witness ==
  /\ requests # {}
  /\ settled > 0
  /\ ~loading
  /\ \E r \in requests : ~r.atIssue.quiet /\ r.kind = "refetch"

\* ---- C19 ----
\* C19: whenever a request has been issued and none is outstanding, loading is
\* false; and when every request is answered and the triggers stop, loading
\* ends up false for good.
C19_LoadingEnds ==
  /\ []((Issued > 0 /\ requests = {}) => ~loading)
  /\ <>[](requests = {} /\ ~loading)

\* every request issued has settled and loading is false
C19_Witness ==
  /\ Issued = MaxTriggers
  /\ requests = {}
  /\ ~loading

\* ---- C20 ----
\* C20: data is the payload of the invocation that succeeded most recently, or
\* null if none has, whatever the order in which the requests were issued.
C20_LastSettlementWins == data = lastSuccess.body

\* the first of two overlapping requests to one endpoint succeeded after the
\* second one: data is the payload of the request issued first
C20_Witness ==
  /\ url = FirstEndpoint
  /\ requests = {}
  /\ triggers = 2
  /\ settled = 2
  /\ lastSuccess.id = 1
  /\ error = Null
  /\ data = lastSuccess.body
  /\ data # Null

\* ---- C21 ----
\* C21: a render that changes only the options argument schedules no effect,
\* issues no request and leaves data, loading and error as they are; the
\* outstanding requests keep the options they were issued with, and the new
\* options are in the callback the render returns.
C21_OptionsChangeIsSilent ==
  [][\A o \in OptionValues :
       (o # options /\ Render(url, o)) =>
         /\ ~effectPending'
         /\ requests' = requests
         /\ triggers' = triggers
         /\ Hook' = Hook
         /\ RefetchOf(url, o) \in callbacks']_vars

\* only the options changed since mount: the mount request is outstanding with
\* the options of the first render and no other request was issued
C21_Witness ==
  /\ ~effectPending
  /\ triggers = 1
  /\ url = FirstEndpoint
  /\ \E r \in requests : r.kind = "mount" /\ r.options # options

\* ---- C22 ----
\* C22: in the hook without refetch, loading is true until the first request
\* settles and never becomes true again: running the effect for a changed
\* endpoint issues a request and leaves data, loading and error as they are.
C22_SimpleLoadingOnlyOnce ==
  /\ [](settled = 0 => loading)
  /\ [][/\ loading' => loading
        /\ SimpleRunEffect =>
             (Hook' = Hook /\ Issued' = Issued + 1
              /\ \E r \in requests' : r.id = Issued' /\ r.url = url)
        /\ \A u \in Endpoints : SimpleRender(u) => Hook' = Hook]_vars

\* the request to the new endpoint is outstanding while loading is false and
\* the data of the first endpoint is still exposed
C22_Witness ==
  /\ url # FirstEndpoint
  /\ ~loading
  /\ settled = 1
  /\ lastSuccess.id = 1
  /\ data # Null
  /\ \E r \in requests : r.kind = "endpoint" /\ r.url = url
====
